---- MODULE Spec2Model ----
(***************************************************************************)
(* Model of src/src/main.rs: one GTK application whose main loop (the      *)
(* dispatcher) serves four windows, each holding one button wired to one   *)
(* click strategy:                                                         *)
(*   "blocking"  build_app_with_stuck_behavior                             *)
(*   "bare"      build_app_with_new_thread                                 *)
(*   "gated"     build_app_with_new_thead_and_button_disable               *)
(*   "coop"      build_app_with_async_button                               *)
(* A step of the model is either one callback run to completion (or to its *)
(* await) by the main loop, one step of a worker thread, or one step of    *)
(* the wall clock.                                                         *)
(***************************************************************************)
EXTENDS Integers, Sequences, FiniteSets, TLC

\* ---------------------------------------------------------------- bounds
\* Gated-offload workers ever spawned in one run.
MaxWorkers == 2
\* Bare-offload workers sleeping at the same time.
MaxBare == 2
\* Suspend/resume rounds of the cooperative-suspend callback in one run: the
\* button is not clicked again once that many resumptions have happened.
MaxSuspends == 1
\* Seconds in one step of the clock.
TickSecs == 5

\* ------------------------------------------------------ program constants
\* timeout_future_seconds(10)
TimerSecs == 10

Strategies == {"blocking", "bare", "gated", "coop"}
Workers == 1..MaxWorkers

VARIABLES
    running,       \* app.run() has not returned (the process is alive)
    dispPC,        \* main loop: "idle" (between callbacks) or "blocked" (inside the 10 s sleep)
    alive,         \* alive[s]: the window of strategy s, and the button it owns, exist
    enabled,       \* enabled[s]: the button's sensitive flag
    attached,      \* the channel receiver's source is attached to the main context
    chan,          \* messages sent and not yet received, oldest first
    wpc,           \* wpc[w]: position of gated worker w in its closure
    sent,          \* sent[w]: the values worker w has sent successfully, in order
    handled,       \* handled[w]: the handler's invocations on messages of worker w, in order
    bareInFlight,  \* bare-offload threads inside their sleep
    coopTimer,     \* the async block: "none", "scheduled", "resumed", "cancelled"
    coopElapsed,   \* seconds elapsed since the async block suspended
    coopSuspends,  \* times the async block reached its await
    coopResumes    \* times the async block was resumed after its await

vars == <<running, dispPC, alive, enabled, attached, chan, wpc, sent, handled,
          bareInFlight, coopTimer, coopElapsed, coopSuspends, coopResumes>>

gatedVars == <<attached, chan, wpc, sent, handled>>
coopVars == <<coopTimer, coopElapsed, coopSuspends, coopResumes>>

\* State after main() has connected the four builders and every window is
\* presented: buttons are sensitive, nothing has been clicked.
Init ==
    /\ running = TRUE
    /\ dispPC = "idle"
    /\ alive = [s \in Strategies |-> TRUE]
    /\ enabled = [s \in Strategies |-> TRUE]
    /\ attached = TRUE
    /\ chan = <<>>
    /\ wpc = [w \in Workers |-> "unspawned"]
    /\ sent = [w \in Workers |-> <<>>]
    /\ handled = [w \in Workers |-> <<>>]
    /\ bareInFlight = 0
    /\ coopTimer = "none"
    /\ coopElapsed = 0
    /\ coopSuspends = 0
    /\ coopResumes = 0

\* DispatcherFree as it would be if the main loop dispatched sources while a
\* callback is still running on its thread.
DispatcherReentrant == running

\* The main loop is free to dispatch a source: the process runs and no
\* callback is in progress on the main thread.
DispatcherFree == running /\ dispPC = "idle"

\* A click reaches the "clicked" handlers of button s: the main loop is free,
\* the button exists and is sensitive (an insensitive button emits nothing).
Clickable(s) == DispatcherFree /\ alive[s] /\ enabled[s]

\* ------------------------------------------------------------- blocking
\* button.connect_clicked: std::thread::sleep(10 s) on the main thread. The
\* main loop is inside the callback until the sleep returns.
ClickBlocking ==
    /\ Clickable("blocking")
    /\ dispPC' = "blocked"
    /\ UNCHANGED <<running, alive, enabled, gatedVars, bareInFlight, coopVars>>

\* The sleep returns and the callback ends.
BlockingDone ==
    /\ running
    /\ dispPC = "blocked"
    /\ dispPC' = "idle"
    /\ UNCHANGED <<running, alive, enabled, gatedVars, bareInFlight, coopVars>>

\* ----------------------------------------------------------------- bare
\* ClickBare as it would be if the click also made the button insensitive.
ClickBareGated ==
    /\ Clickable("bare")
    /\ bareInFlight < MaxBare
    /\ bareInFlight' = bareInFlight + 1
    /\ enabled' = [enabled EXCEPT !["bare"] = FALSE]
    /\ UNCHANGED <<running, dispPC, alive, gatedVars, coopVars>>

\* button.connect_clicked: thread::spawn of a thread that sleeps 10 s.
ClickBare ==
    /\ Clickable("bare")
    /\ bareInFlight < MaxBare
    /\ bareInFlight' = bareInFlight + 1
    /\ UNCHANGED <<running, dispPC, alive, enabled, gatedVars, coopVars>>

\* One bare-offload thread returns from its sleep and ends.
BareDone ==
    /\ running
    /\ bareInFlight > 0
    /\ bareInFlight' = bareInFlight - 1
    /\ UNCHANGED <<running, dispPC, alive, enabled, gatedVars, coopVars>>

\* ---------------------------------------------------------------- gated
\* The worker the next click spawns: the lowest one not spawned yet.
NextWorker ==
    CHOOSE w \in Workers :
        /\ wpc[w] = "unspawned"
        /\ \A u \in Workers : u < w => wpc[u] # "unspawned"

\* button.connect_clicked: clone the sender and thread::spawn the worker.
\* The callback itself does not touch the button.
ClickGated ==
    /\ Clickable("gated")
    /\ \E w \in Workers : wpc[w] = "unspawned"
    /\ wpc' = [wpc EXCEPT ![NextWorker] = "spawned"]
    /\ UNCHANGED <<running, dispPC, alive, enabled, attached, chan, sent,
                   handled, bareInFlight, coopVars>>

\* Send as it would be if the worker set the button's flag itself.
SendWritesControl(w, v, from, to) ==
    /\ running
    /\ wpc[w] = from
    /\ IF attached
       THEN /\ chan' = Append(chan, [w |-> w, n |-> Len(sent[w]) + 1, v |-> v])
            /\ sent' = [sent EXCEPT ![w] = Append(@, v)]
            /\ wpc' = [wpc EXCEPT ![w] = to]
            /\ enabled' = [enabled EXCEPT !["gated"] = v]
       ELSE /\ wpc' = [wpc EXCEPT ![w] = "panicked"]
            /\ UNCHANGED <<chan, sent, enabled>>
    /\ UNCHANGED <<running, dispPC, alive, attached, handled,
                   bareInFlight, coopVars>>

\* sender.send(v).expect(..) by worker w, at position `from`: while the
\* receiver's source is attached the value is queued and the worker goes on
\* to `to`; once the source is destroyed send returns Err and expect panics.
Send(w, v, from, to) ==
    /\ running
    /\ wpc[w] = from
    /\ IF attached
       THEN /\ chan' = Append(chan, [w |-> w, n |-> Len(sent[w]) + 1, v |-> v])
            /\ sent' = [sent EXCEPT ![w] = Append(@, v)]
            /\ wpc' = [wpc EXCEPT ![w] = to]
       ELSE /\ wpc' = [wpc EXCEPT ![w] = "panicked"]
            /\ UNCHANGED <<chan, sent>>
    /\ UNCHANGED <<running, dispPC, alive, enabled, attached, handled,
                   bareInFlight, coopVars>>

\* WorkerSendFalse as it would be if the worker's first message were true.
WorkerSendsTrueFirst(w) == Send(w, TRUE, "spawned", "sleeping")

\* sender.send(false): the first statement of the worker.
WorkerSendFalse(w) == Send(w, FALSE, "spawned", "sleeping")

\* WorkerSendTrue as it would be if the worker's last message were false.
WorkerSendsFalseLast(w) == Send(w, FALSE, "sleeping", "done")

\* std::thread::sleep(10 s) returns and the worker runs its last statement,
\* sender.send(true). (The sleep touches nothing shared: its return and the
\* send that follows are one step.)
WorkerSendTrue(w) == Send(w, TRUE, "sleeping", "done")

\* Recv as it would be if the source took the newest message first.
RecvNewest(q) == [msg |-> q[Len(q)], rest |-> SubSeq(q, 1, Len(q) - 1)]

\* Recv as it would be if the source left the message it takes in the queue.
RecvPeek(q) == [msg |-> Head(q), rest |-> q]

\* What the attached source takes from the queue: the oldest message.
Recv(q) == [msg |-> Head(q), rest |-> Tail(q)]

\* Handler as it would be with @default-return Continue(true).
HandlerKeepsSource(v) ==
    IF alive["gated"]
    THEN [set |-> TRUE, cont |-> TRUE]
    ELSE [set |-> FALSE, cont |-> TRUE]

\* Handler as it would be if the closure returned Continue(false) after a
\* successful update too.
HandlerDetaches(v) ==
    IF alive["gated"]
    THEN [set |-> TRUE, cont |-> FALSE]
    ELSE [set |-> FALSE, cont |-> FALSE]

\* The closure clone!(@weak button => @default-return Continue(false), ..)
\* run on value v: with the button gone the upgrade fails and the default is
\* returned; otherwise set_sensitive(v) and Continue(true).
Handler(v) ==
    IF alive["gated"]
    THEN [set |-> TRUE, cont |-> TRUE]
    ELSE [set |-> FALSE, cont |-> FALSE]

\* The main loop dispatches the channel source for one queued message.
\* Continue(false) removes the source: what is still queued is never received.
\* (A dispatch that drains several messages is a run of these steps: worker
\* threads run in parallel with it, and nothing else runs on the main thread
\* that the steps in between could not also precede.)
HandleMsg ==
    /\ DispatcherFree
    /\ attached
    /\ chan # <<>>
    /\ LET r == Recv(chan)
           h == Handler(r.msg.v)
       IN /\ handled' = [handled EXCEPT ![r.msg.w] =
                            Append(@, [n |-> r.msg.n, v |-> r.msg.v, live |-> h.set])]
          /\ enabled' = IF h.set THEN [enabled EXCEPT !["gated"] = r.msg.v]
                                 ELSE enabled
          /\ attached' = h.cont
          /\ chan' = IF h.cont THEN r.rest ELSE <<>>
    /\ UNCHANGED <<running, dispPC, alive, wpc, sent, bareInFlight, coopVars>>

\* ----------------------------------------------------------------- coop
\* ClickCoop as it would be without set_sensitive(false) before the await.
ClickCoopNoDisable ==
    /\ Clickable("coop")
    /\ coopResumes < MaxSuspends
    /\ coopTimer' = "scheduled"
    /\ coopElapsed' = 0
    /\ coopSuspends' = coopSuspends + 1
    /\ UNCHANGED <<running, dispPC, alive, enabled, gatedVars, bareInFlight,
                   coopResumes>>

\* ClickCoop as it would be if the callback slept on the main thread instead
\* of awaiting the timer.
ClickCoopBlocks ==
    /\ Clickable("coop")
    /\ coopResumes < MaxSuspends
    /\ enabled' = [enabled EXCEPT !["coop"] = FALSE]
    /\ dispPC' = "blocked"
    /\ coopTimer' = "scheduled"
    /\ coopElapsed' = 0
    /\ coopSuspends' = coopSuspends + 1
    /\ UNCHANGED <<running, alive, gatedVars, bareInFlight, coopResumes>>

\* button.connect_clicked: spawn_local of the async block, which runs to its
\* await: set_sensitive(false), then timeout_future_seconds(10) is pending.
\* The block holds the upgraded (strong) button across the await. The spawned
\* task is a default-priority source of the same main context, so the main
\* loop polls it before it completes another click gesture: the callback and
\* the first poll are one step here.
ClickCoop ==
    /\ Clickable("coop")
    /\ coopResumes < MaxSuspends
    /\ enabled' = [enabled EXCEPT !["coop"] = FALSE]
    /\ coopTimer' = "scheduled"
    /\ coopElapsed' = 0
    /\ coopSuspends' = coopSuspends + 1
    /\ UNCHANGED <<running, dispPC, alive, gatedVars, bareInFlight,
                   coopResumes>>

\* The clock advances by one step while the timer is pending (time that
\* passes after the deadline changes nothing the program reads).
Tick ==
    /\ running
    /\ coopTimer = "scheduled"
    /\ coopElapsed < TimerSecs
    /\ coopElapsed' = coopElapsed + TickSecs
    /\ UNCHANGED <<running, dispPC, alive, enabled, gatedVars, bareInFlight,
                   coopTimer, coopSuspends, coopResumes>>

\* CoopResume as it would be if the timer did not wait for its deadline.
CoopResumeEarly ==
    /\ DispatcherFree
    /\ coopTimer = "scheduled"
    /\ enabled' = [enabled EXCEPT !["coop"] = TRUE]
    /\ coopTimer' = "resumed"
    /\ coopResumes' = coopResumes + 1
    /\ UNCHANGED <<running, dispPC, alive, gatedVars, bareInFlight,
                   coopElapsed, coopSuspends>>

\* The timeout source fires and the main loop polls the async block again:
\* the await returns and set_sensitive(true) runs.
CoopResume ==
    /\ DispatcherFree
    /\ coopTimer = "scheduled"
    /\ coopElapsed >= TimerSecs
    /\ enabled' = [enabled EXCEPT !["coop"] = TRUE]
    /\ coopTimer' = "resumed"
    /\ coopResumes' = coopResumes + 1
    /\ UNCHANGED <<running, dispPC, alive, gatedVars, bareInFlight,
                   coopElapsed, coopSuspends>>

\* -------------------------------------------------------------- windows
\* DestroyWindow as it would be if a pending timer outlived the main loop.
DestroyWindowKeepsTimer(s) ==
    /\ DispatcherFree
    /\ alive[s]
    /\ alive' = [alive EXCEPT ![s] = FALSE]
    /\ running' = ~(\A t \in Strategies \ {s} : ~alive[t])
    /\ UNCHANGED <<dispPC, enabled, gatedVars, bareInFlight, coopVars>>

\* The user closes the window of strategy s: the window and the button it
\* owns are destroyed. With the last window gone app.run() returns, main
\* returns and the process ends: threads stop where they are and a pending
\* timer never fires.
DestroyWindow(s) ==
    /\ DispatcherFree
    /\ alive[s]
    /\ alive' = [alive EXCEPT ![s] = FALSE]
    /\ LET last == \A t \in Strategies \ {s} : ~alive[t]
       IN /\ running' = ~last
          /\ coopTimer' = IF last /\ coopTimer = "scheduled"
                          THEN "cancelled" ELSE coopTimer
    /\ UNCHANGED <<dispPC, enabled, gatedVars, bareInFlight,
                   coopElapsed, coopSuspends, coopResumes>>

\* ------------------------------------------------------- specifications
DispatcherStep ==
    \/ ClickBlocking
    \/ BlockingDone
    \/ ClickBare
    \/ ClickGated
    \/ HandleMsg
    \/ ClickCoop
    \/ CoopResume
    \/ \E s \in Strategies : DestroyWindow(s)

WorkerStep ==
    \/ BareDone
    \/ \E w \in Workers : WorkerSendFalse(w)
    \/ \E w \in Workers : WorkerSendTrue(w)

Next ==
    \/ ClickBlocking
    \/ BlockingDone
    \/ ClickBare
    \/ BareDone
    \/ ClickGated
    \/ \E w \in Workers : WorkerSendFalse(w)
    \/ \E w \in Workers : WorkerSendTrue(w)
    \/ HandleMsg
    \/ ClickCoop
    \/ Tick
    \/ CoopResume
    \/ \E s \in Strategies : DestroyWindow(s)

Spec == Init /\ [][Next]_vars

\* The main loop keeps iterating: a callback that sleeps returns, and a
\* channel source that is ready whenever the loop is free is dispatched.
FairSpec ==
    /\ Spec
    /\ WF_vars(BlockingDone)
    /\ SF_vars(HandleMsg)

\* The steps that read or write the channel, or decide when the main loop can
\* serve it: the blocking callback, the gated strategy and the windows. The
\* bare and coop strategies touch neither the channel nor the gated button.
ChannelNext ==
    \/ ClickBlocking
    \/ BlockingDone
    \/ ClickGated
    \/ \E w \in Workers : WorkerSendFalse(w)
    \/ \E w \in Workers : WorkerSendTrue(w)
    \/ HandleMsg
    \/ \E s \in Strategies : DestroyWindow(s)

ChannelFairSpec ==
    /\ Init
    /\ [][ChannelNext]_vars
    /\ WF_vars(BlockingDone)
    /\ SF_vars(HandleMsg)

\* As ChannelFairSpec, and the operating system keeps running the worker
\* threads: a worker's pending send is made and its sleep returns.
WorkerFairSpec ==
    /\ Init
    /\ [][ChannelNext]_vars
    /\ WF_vars(BlockingDone)
    /\ SF_vars(HandleMsg)
    /\ \A w \in Workers : WF_vars(WorkerSendFalse(w))
    /\ \A w \in Workers : WF_vars(WorkerSendTrue(w))

\* The steps of the main loop and of the gated workers while the coop
\* strategy runs: everything but the bare strategy, whose steps touch only the
\* count of its own threads.
SuspendNext ==
    \/ ClickBlocking
    \/ BlockingDone
    \/ ClickGated
    \/ \E w \in Workers : WorkerSendFalse(w)
    \/ \E w \in Workers : WorkerSendTrue(w)
    \/ HandleMsg
    \/ ClickCoop
    \/ Tick
    \/ CoopResume
    \/ \E s \in Strategies : DestroyWindow(s)

\* The main loop keeps iterating; nothing is assumed about the clock, so a
\* pending timer may stay pending for ever.
SuspendFairSpec ==
    /\ Init
    /\ [][SuspendNext]_vars
    /\ WF_vars(BlockingDone)
    /\ SF_vars(HandleMsg)

TypeOK ==
    /\ running \in BOOLEAN
    /\ dispPC \in {"idle", "blocked"}
    /\ alive \in [Strategies -> BOOLEAN]
    /\ enabled \in [Strategies -> BOOLEAN]
    /\ attached \in BOOLEAN
    /\ wpc \in [Workers -> {"unspawned", "spawned", "sleeping", "done",
                            "panicked"}]
    /\ bareInFlight \in 0..MaxBare
    /\ coopTimer \in {"none", "scheduled", "resumed", "cancelled"}
    /\ coopElapsed \in 0..(TimerSecs + TickSecs)
    /\ coopSuspends \in 0..MaxSuspends
    /\ coopResumes \in 0..MaxSuspends

\* --------------------------------------------------------------- claims
\* A gated-offload TimedWork unit is in flight: worker w has been spawned and
\* has not made its final send.
InFlight(w) == wpc[w] \in {"spawned", "sleeping"}

\* Worker w is spawned in this step.
Spawns(w) == wpc[w] = "unspawned" /\ wpc'[w] = "spawned"

\* The channel handler is invoked in this step.
Invoked == \E w \in Workers : Len(handled'[w]) > Len(handled[w])

\* C1: at most one gated-offload worker is in flight at any time, and no
\* worker is spawned in a step that starts with the gated control disabled.
C1_Serialized ==
    /\ [](Cardinality({w \in Workers : InFlight(w)}) <= 1)
    /\ [][~enabled["gated"] => ~(\E w \in Workers : Spawns(w))]_vars

\* C2: while a gated-offload worker is in flight the gated control's enabled
\* flag is false, and once every spawned worker has completed and every
\* message has been applied to the live control the flag is true.
C2_GatedFlag ==
    /\ \A w \in Workers : InFlight(w) => ~enabled["gated"]
    /\ ( /\ alive["gated"]
         /\ \E w \in Workers : wpc[w] = "done"
         /\ \A w \in Workers : wpc[w] \in {"unspawned", "done"}
         /\ chan = <<>> )
       => enabled["gated"]

C4_SyncDisable ==
    /\ [][(\E w \in Workers : Spawns(w)) => ~enabled'["gated"]]_vars
    /\ [](\A i \in 1..Len(chan) : chan[i].v = TRUE)

\* C5: the handler's invocations on the messages of one worker follow that
\* worker's send order: they are the first sends of the worker, in order.
C5_FifoPerSender ==
    \A w \in Workers :
        /\ Len(handled[w]) <= Len(sent[w])
        /\ \A i \in 1..Len(handled[w]) :
            /\ handled[w][i].n = i
            /\ handled[w][i].v = sent[w][i]

\* C5 witness: a worker's false and true have both been handled, in that
\* order, while another worker's message went through the same channel.
C5_Witness ==
    \E w \in Workers, u \in Workers :
        /\ u # w
        /\ Len(handled[w]) = 2
        /\ handled[w][1].v = FALSE
        /\ handled[w][2].v = TRUE
        /\ Len(handled[u]) = 1
        /\ InFlight(u)

\* The handler has been invoked on the k-th message of worker w.
Delivered(w, k) == \E i \in 1..Len(handled[w]) : handled[w][i].n = k

\* C6: no message is handled twice, and while the process runs and the
\* receiver stays attached every message sent is eventually handled.
C6_ExactlyOnce ==
    /\ [](\A w \in Workers : \A i, j \in 1..Len(handled[w]) :
            handled[w][i].n = handled[w][j].n => i = j)
    /\ \A w \in Workers : \A k \in 1..2 :
        (Len(sent[w]) >= k) ~> (Delivered(w, k) \/ ~attached \/ ~running)

\* C6 witness: both messages of a worker were sent and each was handled.
C6_Witness ==
    \E w \in Workers :
        /\ Len(sent[w]) = 2
        /\ Delivered(w, 1)
        /\ Delivered(w, 2)
        /\ Len(handled[w]) = 2
        /\ attached

\* C7: no gated-offload worker ever panics, whatever happens to the window.
C7_NoWorkerPanics == \A w \in Workers : wpc[w] # "panicked"

\* C8 as stated: a handler invocation after the gated control was destroyed
\* skips the update and leaves the receiver attached.
C8_ReceiverStaysRegistered ==
    [][(Invoked /\ ~alive["gated"])
        => (enabled' = enabled /\ attached')]_vars

\* C8 as amended: a handler invocation after the gated control was destroyed
\* skips the update and detaches the receiver; from then on no message is
\* handled and no send succeeds.
C8_ExpiredControlDetaches ==
    /\ [][(Invoked /\ ~alive["gated"])
            => (enabled' = enabled /\ ~attached')]_vars
    /\ [][~attached => (~attached' /\ handled' = handled /\ sent' = sent)]_vars

\* C8 witness: a message was handled with the control gone, and a later send
\* by a worker failed.
C8_Witness ==
    /\ ~alive["gated"]
    /\ ~attached
    /\ \E w \in Workers : \E i \in 1..Len(handled[w]) : ~handled[w][i].live
    /\ \E w \in Workers : wpc[w] = "panicked"

\* C9: a step that changes an enabled flag is a step of the main loop, and
\* every step of a worker thread leaves every enabled flag unchanged.
C9_DispatcherOnlyWrites ==
    /\ [][enabled' # enabled => DispatcherStep]_vars
    /\ [][WorkerStep => enabled' = enabled]_vars

\* C9 witness: a worker has sent false and is in its sleep, its message is
\* still queued, and the gated control is still enabled.
C9_Witness ==
    \E w \in Workers :
        /\ wpc[w] = "sleeping"
        /\ Len(handled[w]) = 0
        /\ Len(chan) > 0
        /\ enabled["gated"]

C11_SuspendDoesNotBlock ==
    /\ [][coopSuspends' # coopSuspends => dispPC' = "idle"]_vars
    /\ []((coopTimer = "scheduled" /\ coopElapsed < TimerSecs /\ DispatcherFree)
            => /\ (attached /\ chan # <<>>) => ENABLED HandleMsg
               /\ (alive["gated"] /\ enabled["gated"]
                    /\ \E w \in Workers : wpc[w] = "unspawned")
                  => ENABLED ClickGated
               /\ (alive["blocking"] /\ enabled["blocking"])
                  => ENABLED ClickBlocking)
    /\ (coopTimer = "scheduled" /\ chan # <<>>)
            ~> (chan = <<>> \/ ~running)

\* C11 witness: a worker was spawned, and both its messages were sent and
\* handled, while the callback is suspended on a timer that has not elapsed.
C11_Witness ==
    /\ coopTimer = "scheduled"
    /\ coopElapsed = 0
    /\ \E w \in Workers :
        /\ wpc[w] = "done"
        /\ Len(handled[w]) = 2
        /\ \A u \in Workers \ {w} : wpc[u] = "unspawned"
    /\ dispPC = "idle"

\* Timers of the coop callback that are scheduled and not yet ended.
PendingTimers == coopSuspends - coopResumes - (IF coopTimer = "cancelled" THEN 1 ELSE 0)

\* C12: a scheduled timer ends as resumed or as cancelled and as nothing
\* else; when the main loop ends with the timer scheduled the timer becomes
\* cancelled, and from then on it stays cancelled, nothing is resumed and the
\* coop control stays disabled.
C12_TimerEndsOnce ==
    /\ [][(coopTimer = "scheduled" /\ coopTimer' # "scheduled")
            => coopTimer' \in {"resumed", "cancelled"}]_vars
    /\ [][(coopTimer = "scheduled" /\ running /\ ~running')
            => coopTimer' = "cancelled"]_vars
    /\ [][coopTimer = "cancelled"
            => /\ coopTimer' = "cancelled"
               /\ coopResumes' = coopResumes
               /\ enabled'["coop"] = enabled["coop"]]_vars
    /\ [](coopTimer = "cancelled" => (~running /\ ~enabled["coop"]))
    /\ [](~running => coopTimer # "scheduled")
    /\ [](PendingTimers = (IF coopTimer = "scheduled" THEN 1 ELSE 0))

\* C12 witness: the main loop ended after the deadline had passed with the
\* timer still scheduled: the timer is cancelled and was never resumed.
C12_Witness ==
    /\ ~running
    /\ coopTimer = "cancelled"
    /\ coopElapsed >= TimerSecs
    /\ coopSuspends = 1
    /\ coopResumes = 0
    /\ ~enabled["coop"]

\* C13: what a worker has sent is false, then true, and nothing more; a
\* worker in its sleep has sent false only and a worker that has finished has
\* sent both; and a handler invocation on the live control leaves the gated
\* control's flag equal to the value handled.
C13_WorkerProtocol ==
    /\ [](\A w \in Workers :
            /\ Len(sent[w]) <= 2
            /\ Len(sent[w]) >= 1 => sent[w][1] = FALSE
            /\ Len(sent[w]) = 2 => sent[w][2] = TRUE
            /\ wpc[w] \in {"unspawned", "spawned"} => sent[w] = <<>>
            /\ wpc[w] = "sleeping" => sent[w] = <<FALSE>>
            /\ wpc[w] = "done" => sent[w] = <<FALSE, TRUE>>)
    /\ [][\A w \in Workers :
            (Len(handled'[w]) > Len(handled[w]) /\ alive["gated"])
                => enabled'["gated"] = handled'[w][Len(handled'[w])].v]_vars

\* C13 witness: a worker has finished, both its messages were handled on the
\* live control, and the flag holds the value handled last.
C13_Witness ==
    \E w \in Workers :
        /\ wpc[w] = "done"
        /\ sent[w] = <<FALSE, TRUE>>
        /\ Len(handled[w]) = 2
        /\ handled[w][1].live
        /\ handled[w][2].live
        /\ \A u \in Workers \ {w} : handled[u] = <<>>
        /\ enabled["gated"]

\* C14: the bare control is always enabled; a step that spawns a bare worker
\* adds exactly one, leaves the main loop idle and changes no flag; and a
\* click on the live bare control is enabled whenever the main loop is free,
\* however many bare workers are in flight (up to the bound of the model).
C14_BareUnbounded ==
    /\ [](enabled["bare"])
    /\ [][bareInFlight' > bareInFlight
            => /\ bareInFlight' = bareInFlight + 1
               /\ dispPC' = "idle"
               /\ enabled' = enabled]_vars
    /\ []((DispatcherFree /\ alive["bare"] /\ bareInFlight < MaxBare)
            => ENABLED ClickBare)

\* C14 witness: as many bare workers as the bound allows are in flight at
\* once, with the main loop idle and the control still enabled.
C14_Witness ==
    /\ bareInFlight = MaxBare
    /\ dispPC = "idle"
    /\ enabled["bare"]
    /\ alive["bare"]

\* C15: while the blocking callback sleeps on the main thread no step of the
\* main loop other than the callback's return happens: no flag, window,
\* handler log, receiver or coop callback changes and nothing is spawned; the
\* blocking click itself spawns no worker; and the callback is not entered
\* while it is in progress.
C15_BlockingBlocks ==
    /\ [][dispPC = "blocked"
            => /\ enabled' = enabled
               /\ alive' = alive
               /\ running' = running
               /\ handled' = handled
               /\ attached' = attached
               /\ coopSuspends' = coopSuspends
               /\ coopResumes' = coopResumes
               /\ coopTimer' = coopTimer
               /\ ~(\E w \in Workers : Spawns(w))
               /\ bareInFlight' <= bareInFlight]_vars
    /\ [][(dispPC = "idle" /\ dispPC' = "blocked")
            => (wpc' = wpc /\ bareInFlight' = bareInFlight)]_vars
    /\ [](dispPC = "blocked" => ~ENABLED ClickBlocking)

\* C15 witness: the main loop is inside the blocking callback while a channel
\* message is queued and the coop timer's deadline has passed: both wait.
C15_Witness ==
    /\ dispPC = "blocked"
    /\ attached
    /\ chan # <<>>
    /\ coopTimer = "scheduled"
    /\ coopElapsed >= TimerSecs

GatedQuiet == (\A w \in Workers : ~InFlight(w)) /\ chan = <<>>

\* C17: while the gated control exists, whenever no worker is in flight and
\* the channel is empty the control is enabled; and under fair scheduling of
\* the main loop and the workers, a state with a worker in flight is
\* eventually followed by such a quiet state with the control enabled, unless
\* the control is destroyed or the process ends first.
C17_GatedRecovers ==
    /\ []((alive["gated"] /\ GatedQuiet) => enabled["gated"])
    /\ (\E w \in Workers : InFlight(w))
            ~> ((GatedQuiet /\ enabled["gated"]) \/ ~alive["gated"] \/ ~running)

\* C17 witness: every worker the model allows was spawned and has finished,
\* the channel is empty and the live control is enabled again.
C17_Witness ==
    /\ alive["gated"]
    /\ \A w \in Workers : wpc[w] = "done"
    /\ chan = <<>>
    /\ enabled["gated"]

\* C18: while the gated control exists the receiver is attached and a
\* handler invocation leaves it attached; a worker has panicked on a failed
\* send only if a message was handled with the control already destroyed.
C18_AttachedWhileAlive ==
    /\ [](alive["gated"] => attached)
    /\ [][(Invoked /\ alive["gated"]) => attached']_vars
    /\ []((\E w \in Workers : wpc[w] = "panicked")
            => /\ ~alive["gated"]
               /\ \E u \in Workers : \E i \in 1..Len(handled[u]) :
                    ~handled[u][i].live)

\* C18 witness: with the control alive, a worker's first message was handled
\* and its second send then succeeded; the receiver is still attached.
C18_Witness ==
    \E w \in Workers :
        /\ alive["gated"]
        /\ attached
        /\ Len(handled[w]) = 1
        /\ handled[w][1].live
        /\ wpc[w] = "done"
        /\ Len(chan) = 1

====
